---- MODULE Spec2Model ----
(***************************************************************************)
(* Model of the GenAI-Studio chat application: the BasicAgent session      *)
(* wrapper (src/agents/basic_agent.py) and the Streamlit page handlers     *)
(* that drive it (src/app.py).                                             *)
(*                                                                         *)
(* Text is modelled as a sequence of one-character strings, so that        *)
(* str.strip() is computed character by character.  A Python value that    *)
(* may be None is modelled as a sequence of length 0 (None) or 1 (<<v>>).  *)
(* A file is what f.read() returns for it: its decoded text.               *)
(***************************************************************************)
EXTENDS Integers, Sequences, FiniteSets, TLC

VARIABLES
    args,                  \* the arguments BasicAgent.__init__ is called with
    fs,                    \* what the file system holds at system_prompt_path
    constructed,           \* "no", "yes", or "raised" (open() failed)
    llm_params,            \* the keyword arguments handed to ChatOpenAI
    conversation_history,  \* self.conversation_history
    system_message,        \* self.system_message
    messages,              \* st.session_state.messages
    request,               \* the list last passed to self.llm.invoke
    raised,                \* the last operation ended by raising to its caller
    ret,                   \* the value the last chat() returned (None if none)
    log,                   \* the operations called so far, oldest first
    pc,                    \* per caller: the line of chat() it stands before
    user_message,          \* per caller: chat()'s argument
    local_messages,        \* per caller: chat()'s local variable messages
    response,              \* per caller: chat()'s local variable response
    overlapped,            \* some chat() started while another was running
    failed,                \* some llm.invoke raised
    started                \* number of chat() calls started (overlap model)

vars == <<args, fs, constructed, llm_params, conversation_history,
          system_message, messages, request, raised, ret, log, pc,
          user_message, local_messages, response, overlapped, failed,
          started>>

agentVars == <<llm_params, conversation_history, system_message>>
sessionVars == <<messages, request, raised, ret, log>>
callerVars == <<pc, user_message, local_messages, response, overlapped,
                failed, started>>

----------------------------------------------------------------------------
(* Bounds *)

MaxFileLen == 2     \* longest enumerated prompt file, in characters
MaxOps == 4         \* operations per session
MaxCalls == 3       \* chat() calls started in the overlap model

----------------------------------------------------------------------------
(* Python values *)

None == <<>>
Some(v) == <<v>>

\* bool(v) for v a str or None: None and "" are falsy.
Truthy(v) == v # None /\ v[1] # <<>>

\* The characters str.strip() removes, among those the model uses.
Whitespace == {" ", "\n", "\t"}

RECURSIVE lstrip(_)
lstrip(s) ==
    IF s = <<>> THEN s
    ELSE IF Head(s) \in Whitespace THEN lstrip(Tail(s)) ELSE s

RECURSIVE rstrip(_)
rstrip(s) ==
    IF s = <<>> THEN s
    ELSE IF s[Len(s)] \in Whitespace THEN rstrip(SubSeq(s, 1, Len(s) - 1))
    ELSE s

strip_lonly(s) == lstrip(s)
strip(s) == rstrip(lstrip(s))

----------------------------------------------------------------------------
(* Messages (langchain_core.messages) *)

SystemMessage(content) == [type |-> "system", content |-> content]
HumanMessage(content) == [type |-> "human", content |-> content]
AIMessage(content) == [type |-> "ai", content |-> content]

DefaultPrompt ==
 << "Y", "o", "u", " ", "a", "r", "e", " ", "a", " ", "h", "e", "l", "p",
    "f", "u", "l", " ", "A", "I", " ", "a", "s", "s", "i", "s", "t", "a",
    "n", "t", ".", " ", "A", "n", "s", "w", "e", "r", " ", "q", "u", "e",
    "s", "t", "i", "o", "n", "s", " ", "c", "l", "e", "a", "r", "l", "y",
    " ", "a", "n", "d", " ", "c", "o", "n", "c", "i", "s", "e", "l", "y",
    "." >>

----------------------------------------------------------------------------
(* BasicAgent.__init__ *)

\* os.path.exists(path): true of a file and of a directory.
exists(f) == f.kind \in {"file", "dir"}

\* open(path, 'r') raises on a directory.
OpenRaises(path, f) == Truthy(path) /\ exists(f) /\ f.kind = "dir"

LlmParams_always(a) ==
    [api_key |-> a.api_key, model |-> a.model,
     temperature |-> a.temperature,
     reasoning_effort |-> IF a.reasoning_effort = None THEN None
                          ELSE a.reasoning_effort[1]]

LlmParams(a) ==
    IF Truthy(a.reasoning_effort)
    THEN [api_key |-> a.api_key, model |-> a.model,
          temperature |-> a.temperature,
          reasoning_effort |-> a.reasoning_effort[1]]
    ELSE [api_key |-> a.api_key, model |-> a.model,
          temperature |-> a.temperature]

LoadSystemPrompt_lstrip(path, f) ==
    IF Truthy(path) /\ exists(f) THEN strip_lonly(f.content)
    ELSE DefaultPrompt

LoadSystemPrompt(path, f) ==
    IF Truthy(path) /\ exists(f) THEN strip(f.content) ELSE DefaultPrompt

----------------------------------------------------------------------------
(* Inputs of the construction *)

Chars == {" ", "\n", "\t", "B", "e"}

RECURSIVE TextsUpTo(_)
TextsUpTo(n) ==
    IF n = 0 THEN {<<>>}
    ELSE LET shorter == TextsUpTo(n - 1)
         IN shorter \cup {Append(t, c) : t \in shorter, c \in Chars}

BeTerseFile == <<" ", " ", "B", "e", " ", "t", "e", "r", "s", "e", ".", "\n">>
BeTerse == <<"B", "e", " ", "t", "e", "r", "s", "e", ".">>

PromptPath == <<"p", "r", "o", "m", "p", "t", "s", "/", "s", ".", "t", "x", "t">>
Low == <<"l", "o", "w">>
High == <<"h", "i", "g", "h">>

FileStates ==
    {[kind |-> "absent", content |-> <<>>], [kind |-> "dir", content |-> <<>>]}
    \cup {[kind |-> "file", content |-> c] :
            c \in TextsUpTo(MaxFileLen) \cup {BeTerseFile}}

\* os.path.exists("") is false whatever the file system holds, and a call
\* without a path touches no file: only a real path is paired with a file
\* system entry that exists.
ArgSets ==
    [api_key : {"sk-test"},
     model : {"gpt-3.5-turbo"},
     temperature : {7},                \* in tenths: 0.7
     system_prompt_path : {None, Some(<<>>), Some(PromptPath)},
     reasoning_effort : {None, Some(<<>>), Some(Low), Some(High)}]

NoAgent == <<>>

IdleCallers == [t \in {1, 2} |-> "idle"]
NoLocals == [t \in {1, 2} |-> <<>>]

SessionIdle ==
    /\ messages = <<>>
    /\ request = <<>>
    /\ raised = FALSE
    /\ ret = None
    /\ log = <<>>

CallersIdle ==
    /\ pc = IdleCallers
    /\ user_message = NoLocals
    /\ local_messages = NoLocals
    /\ response = NoLocals
    /\ overlapped = FALSE
    /\ failed = FALSE
    /\ started = 0

InitNew ==
    /\ args \in ArgSets
    /\ fs \in FileStates
    /\ (fs.kind # "absent" => args.system_prompt_path = Some(PromptPath))
    /\ constructed = "no"
    /\ llm_params = NoAgent
    /\ conversation_history = <<>>
    /\ system_message = NoAgent
    /\ SessionIdle
    /\ CallersIdle

\* BasicAgent(**args), lines 7-28.
Construct ==
    /\ constructed = "no"
    /\ llm_params' = LlmParams(args)
    /\ conversation_history' = <<>>
    /\ IF OpenRaises(args.system_prompt_path, fs)
       THEN /\ constructed' = "raised"
            /\ system_message' = NoAgent
       ELSE /\ constructed' = "yes"
            /\ system_message' =
                 SystemMessage(LoadSystemPrompt(args.system_prompt_path, fs))
    /\ UNCHANGED <<args, fs, sessionVars, callerVars>>

NextNew == Construct

SpecNew == InitNew /\ [][NextNew]_vars

----------------------------------------------------------------------------
(* BasicAgent.chat and BasicAgent.clear_history *)

\* line 31: self.conversation_history.append(HumanMessage(...))
chat_append_user_front(h, m) == <<HumanMessage(m)>> \o h
chat_append_user(h, m) == Append(h, HumanMessage(m))

\* line 33: messages = [self.system_message] + self.conversation_history
chat_messages_nosys(sys, h) == h
chat_messages(sys, h) == <<sys>> \o h

\* line 37: self.conversation_history.append(AIMessage(...))
chat_append_ai_human(h, content) == Append(h, HumanMessage(content))
chat_append_ai(h, content) == Append(h, AIMessage(content))

\* The outcome of self.llm.invoke(messages): a response, or an exception.
Returns(content) == [raises |-> FALSE, content |-> content]
Raises == [raises |-> TRUE, content |-> <<>>]

\* A chat() that undoes its append when the remote call raises, and one
\* that keeps the request list as its history.
chat_rollback(h, sys, m, outcome) ==
    LET h1 == chat_append_user(h, m)
        msgs == chat_messages(sys, h1)
    IN IF outcome.raises
       THEN [conversation_history |-> h, request |-> msgs,
             raised |-> TRUE, ret |-> None]
       ELSE [conversation_history |-> chat_append_ai(h1, outcome.content),
             request |-> msgs, raised |-> FALSE,
             ret |-> Some(outcome.content)]

chat_keeps_request(h, sys, m, outcome) ==
    LET h1 == chat_append_user(h, m)
        msgs == chat_messages(sys, h1)
    IN IF outcome.raises
       THEN [conversation_history |-> msgs, request |-> msgs,
             raised |-> TRUE, ret |-> None]
       ELSE [conversation_history |-> chat_append_ai(msgs, outcome.content),
             request |-> msgs, raised |-> FALSE,
             ret |-> Some(outcome.content)]

\* chat(user_message) run from its first line to its return or raise, with
\* no other call in between: the history it leaves, the list it passed to
\* llm.invoke, whether it raised, and what it returned.
chat(h, sys, m, outcome) ==
    LET h1 == chat_append_user(h, m)
        msgs == chat_messages(sys, h1)
    IN IF outcome.raises
       THEN [conversation_history |-> h1, request |-> msgs,
             raised |-> TRUE, ret |-> None]
       ELSE [conversation_history |-> chat_append_ai(h1, outcome.content),
             request |-> msgs, raised |-> FALSE,
             ret |-> Some(outcome.content)]

\* line 42: self.conversation_history = []
clear_history_keep(h) == h
clear_history(h) == <<>>

----------------------------------------------------------------------------
(* A session of calls on one agent, each run to completion *)

Hello == <<"H", "e", "l", "l", "o">>
Again == <<"A", "g", "a", "i", "n">>
HiThere == <<"H", "i", " ", "t", "h", "e", "r", "e">>
OK == <<"O", "K">>

UserMessages == {Hello, Again}
Responses == {HiThere, OK}

ChatEntry(m, outcome) ==
    [op |-> "chat", user_message |-> m, raises |-> outcome.raises,
     content |-> outcome.content]
ClearEntry ==
    [op |-> "clear", user_message |-> <<>>, raises |-> FALSE,
     content |-> <<>>]

SessionArgs ==
    {a \in ArgSets : /\ a.reasoning_effort = None
                     /\ a.system_prompt_path \in {None, Some(PromptPath)}}

InitAgent ==
    /\ args \in SessionArgs
    /\ fs = IF args.system_prompt_path = None
            THEN [kind |-> "absent", content |-> <<>>]
            ELSE [kind |-> "file", content |-> BeTerseFile]
    /\ constructed = "yes"
    /\ llm_params = LlmParams(args)
    /\ conversation_history = <<>>
    /\ system_message =
         SystemMessage(LoadSystemPrompt(args.system_prompt_path, fs))

Init ==
    /\ InitAgent
    /\ SessionIdle
    /\ CallersIdle

Call(m, outcome) ==
    /\ Len(log) < MaxOps
    /\ LET r == chat(conversation_history, system_message, m, outcome)
       IN /\ conversation_history' = r.conversation_history
          /\ request' = r.request
          /\ raised' = r.raised
          /\ ret' = r.ret
    /\ log' = Append(log, ChatEntry(m, outcome))
    /\ UNCHANGED <<args, fs, constructed, llm_params, system_message,
                   messages, callerVars>>

\* chat() whose remote call returns a response.
ChatReturns ==
    /\ constructed = "yes"
    /\ \E m \in UserMessages, c \in Responses : Call(m, Returns(c))

\* chat() whose remote call raises.
ChatRaises ==
    /\ constructed = "yes"
    /\ \E m \in UserMessages : Call(m, Raises)

\* clear_history()
ClearHistory ==
    /\ constructed = "yes"
    /\ Len(log) < MaxOps
    /\ conversation_history' = clear_history(conversation_history)
    /\ raised' = FALSE
    /\ ret' = None
    /\ log' = Append(log, ClearEntry)
    /\ UNCHANGED <<args, fs, constructed, llm_params, system_message,
                   messages, request, callerVars>>

Next == ChatReturns \/ ChatRaises \/ ClearHistory

Spec == Init /\ [][Next]_vars

----------------------------------------------------------------------------
(* The page handlers of src/app.py, one UI event at a time *)

UserTurn(content) == [role |-> "user", content |-> content]
AssistantTurn(content) == [role |-> "assistant", content |-> content]

\* lines 50-60: the chat_input handler.  When agent.chat raises, the script
\* run ends there and line 60 is not reached.
on_chat_input(msgs, h, sys, prompt, outcome) ==
    LET m1 == Append(msgs, UserTurn(prompt))
        r == chat(h, sys, prompt, outcome)
    IN [messages |-> IF r.raised THEN m1
                     ELSE Append(m1, AssistantTurn(r.ret[1])),
        agent |-> r]

\* lines 41-44: the "Clear Chat History" button.
on_clear_button_ui_only(msgs, h) ==
    [messages |-> <<>>, conversation_history |-> h]
on_clear_button(msgs, h) ==
    [messages |-> <<>>, conversation_history |-> clear_history(h)]

Submit(prompt, outcome) ==
    /\ Len(log) < MaxOps
    /\ LET r == on_chat_input(messages, conversation_history,
                              system_message, prompt, outcome)
       IN /\ messages' = r.messages
          /\ conversation_history' = r.agent.conversation_history
          /\ request' = r.agent.request
          /\ raised' = r.agent.raised
          /\ ret' = r.agent.ret
    /\ log' = Append(log, ChatEntry(prompt, outcome))
    /\ UNCHANGED <<args, fs, constructed, llm_params, system_message,
                   callerVars>>

\* A submitted prompt that the remote call answers.
SubmitAnswered ==
    /\ constructed = "yes"
    /\ \E p \in UserMessages, c \in Responses : Submit(p, Returns(c))

\* A submitted prompt whose remote call raises.
SubmitFails ==
    /\ constructed = "yes"
    /\ \E p \in UserMessages : Submit(p, Raises)

ClearClick ==
    /\ constructed = "yes"
    /\ Len(log) < MaxOps
    /\ LET r == on_clear_button(messages, conversation_history)
       IN /\ messages' = r.messages
          /\ conversation_history' = r.conversation_history
    /\ raised' = FALSE
    /\ ret' = None
    /\ log' = Append(log, ClearEntry)
    /\ UNCHANGED <<args, fs, constructed, llm_params, system_message,
                   request, callerVars>>

NextApp == SubmitAnswered \/ SubmitFails \/ ClearClick

SpecApp == Init /\ [][NextApp]_vars

----------------------------------------------------------------------------
(* Two callers of chat() on one agent, interleaved line by line *)

Callers == {1, 2}
Other(t) == 3 - t

Start(t) ==
    /\ pc[t] = "idle"
    /\ started < MaxCalls
    /\ \E m \in UserMessages : user_message' = [user_message EXCEPT ![t] = m]
    /\ pc' = [pc EXCEPT ![t] = "l31"]
    /\ overlapped' = (overlapped \/ pc[Other(t)] # "idle")
    /\ started' = started + 1
    /\ UNCHANGED <<args, fs, constructed, agentVars, sessionVars,
                   local_messages, response, failed>>

Line31(t) ==
    /\ pc[t] = "l31"
    /\ conversation_history' =
         chat_append_user(conversation_history, user_message[t])
    /\ pc' = [pc EXCEPT ![t] = "l33"]
    /\ UNCHANGED <<args, fs, constructed, llm_params, system_message,
                   sessionVars, user_message, local_messages, response,
                   overlapped, failed, started>>

Line33(t) ==
    /\ pc[t] = "l33"
    /\ local_messages' =
         [local_messages EXCEPT
            ![t] = chat_messages(system_message, conversation_history)]
    /\ pc' = [pc EXCEPT ![t] = "l35"]
    /\ UNCHANGED <<args, fs, constructed, agentVars, sessionVars,
                   user_message, response, overlapped, failed, started>>

\* line 35, the remote call returning
Line35Returns(t) ==
    /\ pc[t] = "l35"
    /\ \E c \in Responses : response' = [response EXCEPT ![t] = c]
    /\ request' = local_messages[t]
    /\ pc' = [pc EXCEPT ![t] = "l37"]
    /\ UNCHANGED <<args, fs, constructed, agentVars, messages, raised, ret,
                   log, user_message, local_messages, overlapped, failed,
                   started>>

\* line 35, the remote call raising: chat() is left at once
Line35Raises(t) ==
    /\ pc[t] = "l35"
    /\ request' = local_messages[t]
    /\ raised' = TRUE
    /\ ret' = None
    /\ failed' = TRUE
    /\ pc' = [pc EXCEPT ![t] = "idle"]
    /\ UNCHANGED <<args, fs, constructed, agentVars, messages, log,
                   user_message, local_messages, response, overlapped,
                   started>>

\* lines 37-39
Line37(t) ==
    /\ pc[t] = "l37"
    /\ conversation_history' =
         chat_append_ai(conversation_history, response[t])
    /\ raised' = FALSE
    /\ ret' = Some(response[t])
    /\ pc' = [pc EXCEPT ![t] = "idle"]
    /\ UNCHANGED <<args, fs, constructed, llm_params, system_message,
                   messages, request, log, user_message, local_messages,
                   response, overlapped, failed, started>>

NextOverlap ==
    \E t \in Callers :
        \/ Start(t)
        \/ Line31(t)
        \/ Line33(t)
        \/ Line35Returns(t)
        \/ Line35Raises(t)
        \/ Line37(t)

SpecOverlap == Init /\ [][NextOverlap]_vars

----------------------------------------------------------------------------
(* Vocabulary of the properties *)

Last(l) == l[Len(l)]
Front(l) == SubSeq(l, 1, Len(l) - 1)

\* human, ai, human, ai, ... starting with human
Alternates(h) ==
    \A i \in 1..Len(h) : h[i].type = (IF i % 2 = 1 THEN "human" ELSE "ai")

AllChatsReturned(l) ==
    \A i \in 1..Len(l) : l[i].op = "chat" /\ ~l[i].raises

\* The turns one logged operation is expected to append.
TurnsOf(e) ==
    IF e.raises THEN <<HumanMessage(e.user_message)>>
    ELSE <<HumanMessage(e.user_message), AIMessage(e.content)>>

\* The turns expected in the history after the logged operations: those of
\* the chats after the most recent clear.
RECURSIVE SinceClear(_)
SinceClear(l) ==
    IF l = <<>> THEN <<>>
    ELSE IF Last(l).op = "clear" THEN <<>>
    ELSE SinceClear(Front(l)) \o TurnsOf(Last(l))

\* The step just taken was the call logged last.
Called(op) == Len(log') = Len(log) + 1 /\ Last(log').op = op

----------------------------------------------------------------------------
(* C1 *)

\* C1: from a fresh agent, after N chat() calls that all returned and no
\* clear_history(), the history has exactly 2*N turns, and the k-th pair is
\* the k-th user message followed by the k-th response.
C1_TwoPerChat ==
    AllChatsReturned(log) =>
        /\ Len(conversation_history) = 2 * Len(log)
        /\ \A k \in 1..Len(log) :
             /\ conversation_history[2 * k - 1]
                  = HumanMessage(log[k].user_message)
             /\ conversation_history[2 * k] = AIMessage(log[k].content)

C1_Witness ==
    /\ Len(log) = 3
    /\ AllChatsReturned(log)
    /\ Len(conversation_history) = 6

----------------------------------------------------------------------------
(* C2 *)

\* C2: in every state between operations, whether the remote calls returned
\* or raised, the history alternates user, assistant, ... from a user turn.
C2_AlwaysAlternates == Alternates(conversation_history)

----------------------------------------------------------------------------
(* C3 *)

\* C3: a chat(msg) whose remote call raises ends by raising to its caller,
\* returns nothing, and leaves the history as it was before the call plus
\* one user turn msg: no assistant turn, no rollback.
C3_FailedChatKeepsUserTurn ==
    [][(Called("chat") /\ Last(log').raises) =>
         /\ raised'
         /\ ret' = None
         /\ conversation_history'
              = Append(conversation_history,
                       HumanMessage(Last(log').user_message))]_vars

C3_Witness ==
    /\ Len(log) = 1
    /\ log[1].raises
    /\ raised
    /\ conversation_history = <<HumanMessage(log[1].user_message)>>

----------------------------------------------------------------------------
(* C4 *)

\* C4: clear_history() never raises and leaves the history empty whatever
\* it held, and a clear_history() right after a clear_history() changes
\* nothing of the agent.
C4_ClearEmpties ==
    [][Called("clear") =>
         /\ ~raised'
         /\ conversation_history' = <<>>
         /\ (log # <<>> /\ Last(log).op = "clear" =>
               /\ conversation_history' = conversation_history
               /\ system_message' = system_message
               /\ llm_params' = llm_params)]_vars

C4_Witness ==
    /\ Len(log) = 3
    /\ log[1].op = "chat" /\ log[1].raises
    /\ log[2].op = "clear"
    /\ log[3].op = "clear"
    /\ conversation_history = <<>>

----------------------------------------------------------------------------
(* C5 *)

\* C5: the list a chat(msg) passes to the remote call is the system message
\* followed by the turns appended since the most recent clear_history(),
\* ending with the new user turn and without the pending response; nothing
\* from before a clear is in it or in the history afterwards.
C5_RequestSinceClear ==
    (log # <<>> /\ Last(log).op = "chat") =>
        /\ Len(request) = Len(SinceClear(Front(log))) + 2
        /\ Head(request) = system_message
        /\ Tail(request)
             = Append(SinceClear(Front(log)),
                      HumanMessage(Last(log).user_message))
        /\ conversation_history = SinceClear(log)

C5_Witness ==
    /\ Len(log) = 3
    /\ log[1] = ChatEntry(Hello, Returns(HiThere))
    /\ log[2].op = "clear"
    /\ log[3] = ChatEntry(Again, Returns(OK))
    /\ request = <<system_message, HumanMessage(Again)>>
    /\ conversation_history = <<HumanMessage(Again), AIMessage(OK)>>

----------------------------------------------------------------------------
(* C6 *)

\* C6: after any calls the system message is the one the construction set,
\* and no turn of the history is a system message.
C6_SystemMessageFixed ==
    /\ system_message
         = SystemMessage(LoadSystemPrompt(args.system_prompt_path, fs))
    /\ \A i \in 1..Len(conversation_history) :
         conversation_history[i].type # "system"

C6_Witness ==
    /\ Len(log) = 3
    /\ log[1].op = "chat" /\ ~log[1].raises
    /\ log[2].op = "chat" /\ log[2].raises
    /\ log[3].op = "clear"
    /\ system_message = SystemMessage(BeTerse)

----------------------------------------------------------------------------
(* C7 *)

BaseParamsPassed ==
    /\ {"api_key", "model", "temperature"} \subseteq DOMAIN llm_params
    /\ llm_params.api_key = args.api_key
    /\ llm_params.model = args.model
    /\ llm_params.temperature = args.temperature

\* C7 as stated: the parameter set always holds api_key, model and
\* temperature; it holds no reasoning_effort key when reasoning_effort is
\* None, and holds the key with exactly the value given whenever a value
\* other than None is given.
C7_KeyWheneverGiven ==
    constructed # "no" =>
        /\ BaseParamsPassed
        /\ (args.reasoning_effort = None =>
              "reasoning_effort" \notin DOMAIN llm_params)
        /\ (args.reasoning_effort # None =>
              /\ "reasoning_effort" \in DOMAIN llm_params
              /\ llm_params.reasoning_effort = args.reasoning_effort[1])

\* C7 as amended: the parameter set always holds api_key, model and
\* temperature; it holds a reasoning_effort key exactly when the value given
\* is neither None nor the empty string, and then with exactly that value,
\* so the key is never present with a null or empty value.
C7_KeyOnlyWhenNonEmpty ==
    constructed # "no" =>
        /\ BaseParamsPassed
        /\ ("reasoning_effort" \in DOMAIN llm_params
              <=> (args.reasoning_effort # None
                   /\ Len(args.reasoning_effort[1]) > 0))
        /\ ("reasoning_effort" \in DOMAIN llm_params =>
              /\ llm_params.reasoning_effort = args.reasoning_effort[1]
              /\ llm_params.reasoning_effort # <<>>)

C7_Witness ==
    /\ constructed = "yes"
    /\ args.reasoning_effort = None
    /\ DOMAIN llm_params = {"api_key", "model", "temperature"}

----------------------------------------------------------------------------
(* C8 *)

\* r is s without its leading and trailing whitespace: s is a run of
\* whitespace, then r, then a run of whitespace, and r neither starts nor
\* ends with whitespace.
IsTrimOf(r, s) ==
    \E i \in 0..Len(s) : \E j \in i..Len(s) :
        /\ r = SubSeq(s, i + 1, j)
        /\ \A k \in 1..i : s[k] \in Whitespace
        /\ \A k \in (j + 1)..Len(s) : s[k] \in Whitespace
        /\ (r # <<>> => r[1] \notin Whitespace /\ r[Len(r)] \notin Whitespace)

\* C8: with a path given and the file there, the construction succeeds and
\* the system prompt is the file's text without its leading and trailing
\* whitespace ("  Be terse.\n" gives "Be terse."); with no path, or nothing
\* at the path, it is the default prompt exactly.
C8_SystemPromptChoice ==
    constructed # "no" =>
        /\ (args.system_prompt_path = Some(PromptPath) /\ fs.kind = "file" =>
              /\ constructed = "yes"
              /\ system_message.type = "system"
              /\ IsTrimOf(system_message.content, fs.content)
              /\ (fs.content = BeTerseFile =>
                    system_message.content = BeTerse))
        /\ (args.system_prompt_path = None \/ fs.kind = "absent" =>
              /\ constructed = "yes"
              /\ system_message = SystemMessage(DefaultPrompt))

C8_Witness ==
    /\ constructed = "yes"
    /\ fs = [kind |-> "file", content |-> BeTerseFile]
    /\ system_message = SystemMessage(BeTerse)

----------------------------------------------------------------------------
(* C9 *)

Types(h) == [i \in 1..Len(h) |-> h[i].type]

\* C9: as long as no chat() started while another was running and no
\* remote call raised, the history alternates and every list built for the
\* remote call is the system message followed by alternating turns that end
\* with a user turn (it carries no unanswered user turn of another call).
\* C9_Witness is the state overlapping calls reach instead.
C9_SerializedAlternates ==
    (~overlapped /\ ~failed) =>
        /\ Alternates(conversation_history)
        /\ \A t \in Callers :
             local_messages[t] # <<>> =>
                /\ Head(local_messages[t]) = system_message
                /\ Alternates(Tail(local_messages[t]))
                /\ Last(local_messages[t]).type = "human"

\* Two overlapping calls, both answered: user, user, assistant, assistant,
\* and the second call's list carries the first call's unanswered user turn.
C9_Witness ==
    /\ overlapped /\ ~failed
    /\ started = 2
    /\ pc = IdleCallers
    /\ Types(conversation_history) = <<"human", "human", "ai", "ai">>
    /\ \E t \in Callers :
         local_messages[t]
           = <<system_message, HumanMessage(user_message[Other(t)]),
               HumanMessage(user_message[t])>>

----------------------------------------------------------------------------
(* C10 *)

RoleOf(type) ==
    IF type = "human" THEN "user"
    ELSE IF type = "ai" THEN "assistant" ELSE type

FrontendView(h) ==
    [i \in 1..Len(h) |-> [role |-> RoleOf(h[i].type),
                          content |-> h[i].content]]

\* C10: after every handled UI event the page's message list and the
\* agent's history have the same length, roles and contents: an answered
\* submit added a user and an assistant entry to both, a failed submit the
\* user entry alone, and a clear emptied both.
C10_FrontendInStep ==
    /\ Len(messages) = Len(conversation_history)
    /\ messages = FrontendView(conversation_history)
    /\ conversation_history = SinceClear(log)

C10_Witness ==
    /\ Len(log) = 3
    /\ log[1].op = "clear"
    /\ log[2].op = "chat" /\ ~log[2].raises
    /\ log[3].op = "chat" /\ log[3].raises
    /\ Len(messages) = 3
    /\ messages[3] = UserTurn(log[3].user_message)

====
